---- MODULE Spec2Model ----
(***************************************************************************)
(* Model of interface_mysql.py: the MySQLServer relation watcher, the      *)
(* MySQLDatabase extractor and the MySQLServerError status carriers.       *)
(***************************************************************************)
EXTENDS Integers, Sequences, FiniteSets, TLC

\* ------------------------------------------------------------------- state
VARIABLES
    relation_name,  \* MySQLServer.relation_name
    relations,      \* framework.model.relations[relation_name]: one entry per
                    \* relation, the number of its remote units
    state,          \* MySQLServer.state: the stored attributes
    pass,           \* the most recent handler or query run and what it did
    restarted,      \* the process has restarted since the last handler ran
    run,            \* consecutive changed passes that observed one same bundle
    scen,           \* progress through: bundle a, bundle b, teardown, bundle a
    given,          \* the relation objects database() is called on in SpecQuery
    answer,         \* what database() made of them
    key_order,      \* the order in which state.database holds its keys
    inflight,       \* where a changed handler taken step by step stands
    crashed         \* the last changed handler a crash cut short

vars == <<relation_name, relations, state, pass, restarted, run, scen, given, answer, key_order, inflight, crashed>>

\* ------------------------------------------------------------------ bounds
\* Most relations the host lists under the relation name.
MaxRelations == 2
\* Most remote units of one relation.
MaxUnits == 1

\* ------------------------------------------------------------- data values
\* Relation names the charm may construct the watcher with.
RelationNames == {"db", "shared-db"}

\* The four fields from_relation requires, in the order it tests them.
MandatoryFields == <<"database", "host", "user", "password">>

\* An endpoint that published nothing.
EmptyData == [k \in {} |-> ""]

\* Two complete publications that differ in the host only.
DataA == [database |-> "app", host |-> "10.0.0.5", user |-> "u", password |-> "p"]
DataB == [database |-> "app", host |-> "10.0.0.6", user |-> "u", password |-> "p"]

\* d with key k removed / with key k set to v.
Without(d, k) == [f \in DOMAIN d \ {k} |-> d[f]]
With(d, k, v) == [f \in DOMAIN d \cup {k} |-> IF f = k THEN v ELSE d[f]]

\* d restricted to the keys ks.
Only(d, ks) == [f \in DOMAIN d \cap ks |-> d[f]]

\* The endpoint data the remote side publishes in this model: nothing, the two
\* complete publications, DataA with each mandatory key missing or empty,
\* DataA with an empty, a default and a non-default port, and DataA split in
\* two halves.
DataMaps ==
    {EmptyData, DataA, DataB}
    \cup {Without(DataA, MandatoryFields[i]) : i \in 1..4}
    \cup {With(DataA, MandatoryFields[i], "") : i \in 1..4}
    \cup {With(DataA, "port", p) : p \in {"", "3306", "3307"}}
    \cup {Only(DataA, {"database", "host"}), Only(DataA, {"user", "password"})}

\* The publications the watcher's notifications are run against: nothing, a
\* partial one, and complete ones giving three different bundles, one of them
\* published both with and without the default port.
WatchedData ==
    {EmptyData, Without(DataA, "password"), DataA, DataB,
     With(DataA, "port", "3306"), With(DataA, "port", "3307")}

\* ------------------------------------------------------------------ status
BlockedStatus(message) == [name |-> "blocked", message |-> message]
WaitingStatus(message) == [name |-> "waiting", message |-> message]
NoStatus == [name |-> "unknown", message |-> ""]

\* ------------------------------------------------------------------ errors
MissingRelationError(relation_name_) ==
    [error |-> "MissingRelationError",
     status |-> BlockedStatus("Missing relation: " \o relation_name_)]

TooManyDatabasesError(relation_name_, num_apps) ==
    [error |-> "TooManyDatabasesError",
     status |-> BlockedStatus("Too many related applications: " \o relation_name_)]

\* Slip: the incomplete relation reported as blocked.
IncompleteDatabaseError_Blocked(relation_name_) ==
    [error |-> "IncompleteDatabaseError",
     status |-> BlockedStatus("Waiting for database: " \o relation_name_)]

IncompleteDatabaseError(relation_name_) ==
    [error |-> "IncompleteDatabaseError",
     status |-> WaitingStatus("Waiting for database: " \o relation_name_)]

\* ---------------------------------------------------------- MySQLDatabase
\* The empty dict.
EmptyDict == [k \in {} |-> ""]

\* dict.get(field) is truthy: the key is there and its value is not empty.
Truthy(data, field) == field \in DOMAIN data /\ data[field] # ""

\* dict.get(field, default)
Get(data, field, default) == IF field \in DOMAIN data THEN data[field] ELSE default

\* Slip: port read as data.get('port') or '3306'.
MySQLDatabase_PortOr(data) ==
    [name |-> data["database"],
     host |-> data["host"],
     port |-> IF Truthy(data, "port") THEN data["port"] ELSE "3306",
     username |-> data["user"],
     password |-> data["password"]]

\* The dict MySQLDatabase(name=..., host=..., port=..., username=..., password=...).
MySQLDatabase(data) ==
    [name |-> data["database"],
     host |-> data["host"],
     port |-> Get(data, "port", "3306"),
     username |-> data["user"],
     password |-> data["password"]]

\* The keys of a MySQLDatabase in the order its constructor call inserts them,
\* and as a store that sorts the keys returns them.
BuiltOrder == <<"name", "host", "port", "username", "password">>
SortedOrder == <<"host", "name", "password", "port", "username">>

\* The keys ks in the order they have in ord.
RECURSIVE Reordered(_, _)
Reordered(ks, ord) ==
    IF ord = <<>> THEN <<>>
    ELSE (IF \E i \in 1..Len(ks) : ks[i] = Head(ord) THEN <<Head(ord)>> ELSE <<>>)
         \o Reordered(ks, Tail(ord))

\* The keys of the dict d in its constructor's order.
RECURSIVE KeysOf(_, _)
KeysOf(d, ord) ==
    IF ord = <<>> THEN <<>>
    ELSE (IF Head(ord) \in DOMAIN d THEN <<Head(ord)>> ELSE <<>>) \o KeysOf(d, Tail(ord))

\* The items of the dict d listed in the key order ks.
ItemList(d, ks) == [i \in 1..Len(ks) |-> <<ks[i], d[ks[i]]>>]

\* Slip: the units tried before the application.
Candidates_UnitsFirst(relation) == relation.units \o <<relation.app>>

\* [relation.app] + list(relation.units)
Candidates(relation) == <<relation.app>> \o relation.units

\* all(data.get(field) for field in ('database', 'host', 'user', 'password'))
AllMandatory(data) == \A i \in 1..Len(MandatoryFields) : Truthy(data, MandatoryFields[i])

\* The for loop of from_relation from candidate i on; reads counts the
\* candidates whose data the loop has fetched.
RECURSIVE from_candidates(_, _)
from_candidates(candidates, i) ==
    IF i > Len(candidates)
    THEN [found |-> FALSE, db |-> EmptyDict, reads |-> Len(candidates)]
    ELSE IF AllMandatory(candidates[i])
         THEN [found |-> TRUE, db |-> MySQLDatabase(candidates[i]), reads |-> i]
         ELSE from_candidates(candidates, i + 1)

\* Slip: the endpoints' data merged (first publisher of a key wins) and tested
\* as one.
RECURSIVE Merged(_, _)
Merged(candidates, i) ==
    IF i > Len(candidates) THEN EmptyData
    ELSE LET rest == Merged(candidates, i + 1)
         IN  [k \in DOMAIN candidates[i] \cup DOMAIN rest |->
                 IF k \in DOMAIN candidates[i] THEN candidates[i][k] ELSE rest[k]]

from_relation_Merged(relation) ==
    LET data == Merged(Candidates(relation), 1)
    IN  IF AllMandatory(data)
        THEN [found |-> TRUE, db |-> MySQLDatabase(data), reads |-> Len(Candidates(relation))]
        ELSE [found |-> FALSE, db |-> EmptyDict, reads |-> Len(Candidates(relation))]

from_relation(relation) == from_candidates(Candidates(relation), 1)

\* ------------------------------------------------------------ MySQLServer
Raise(e, n) == [raised |-> e.error, status |-> e.status, db |-> EmptyDict, reads |-> n]
Return(db, n) == [raised |-> "none", status |-> NoStatus, db |-> db, reads |-> n]

\* Slip: the too-many test off by one.
database_OffByOne(relation_name_, rels) ==
    IF Len(rels) = 0
    THEN Raise(MissingRelationError(relation_name_), 0)
    ELSE IF Len(rels) > 2
         THEN Raise(TooManyDatabasesError(relation_name_, Len(rels)), 0)
         ELSE LET r == from_relation(rels[1])
              IN  IF ~r.found
                  THEN Raise(IncompleteDatabaseError(relation_name_), r.reads)
                  ELSE Return(r.db, r.reads)

\* MySQLServer.database(): _relations is the list rels.
database(relation_name_, rels) ==
    IF Len(rels) = 0
    THEN Raise(MissingRelationError(relation_name_), 0)
    ELSE IF Len(rels) > 1
         THEN Raise(TooManyDatabasesError(relation_name_, Len(rels)), 0)
         ELSE LET r == from_relation(rels[1])
              IN  IF ~r.found
                  THEN Raise(IncompleteDatabaseError(relation_name_), r.reads)
                  ELSE Return(r.db, r.reads)

\* Events of MySQLServerEvents.
DatabaseAvailableEvent(db) == [kind |-> "database_available", database |-> db]
DatabaseChangedEvent(db) == [kind |-> "database_changed", database |-> db]
DatabaseUnavailableEvent(status) == [kind |-> "database_unavailable", status |-> status]

\* StoredState: the attributes that have been stored.
HasAttr(st, a) == a \in DOMAIN st
SetAttr(st, a, v) == [k \in DOMAIN st \cup {a} |-> IF k = a THEN v ELSE st[k]]

\* dict(db)
Dict(db) == [k \in DOMAIN db |-> db[k]]

\* not prev_db
Falsy(d) == DOMAIN d = {}

\* What a handler leaves behind: the stored state, the events it emitted in
\* order, the exception that escaped it ("none" when it returned), and the
\* outcome of its database() call.
Outcome(st, events, error, result) ==
    [state |-> st, events |-> events, error |-> error, result |-> result]

NoResult == [raised |-> "notcalled", status |-> NoStatus, db |-> EmptyDict, reads |-> 0]

\* Slip: the comparison with the previous bundle left out.
on_changed_else_NoCompare(st, db, result) ==
    IF ~HasAttr(st, "database")
    THEN Outcome(st, <<>>, "AttributeError", result)
    ELSE LET prev_db == st["database"]
             st2 == SetAttr(st, "database", Dict(db))
         IN  IF Falsy(prev_db)
             THEN Outcome(st2, <<DatabaseAvailableEvent(db)>>, "none", result)
             ELSE Outcome(st2, <<DatabaseChangedEvent(db)>>, "none", result)

\* Slip: the new bundle not stored.
on_changed_else_NoStore(st, db, result) ==
    IF ~HasAttr(st, "database")
    THEN Outcome(st, <<>>, "AttributeError", result)
    ELSE LET prev_db == st["database"]
         IN  IF Falsy(prev_db)
             THEN Outcome(st, <<DatabaseAvailableEvent(db)>>, "none", result)
             ELSE IF db # prev_db
                  THEN Outcome(st, <<DatabaseChangedEvent(db)>>, "none", result)
                  ELSE Outcome(st, <<>>, "none", result)

\* Slip: the second test an if of its own, not an elif.
on_changed_else_IfIf(st, db, result) ==
    IF ~HasAttr(st, "database")
    THEN Outcome(st, <<>>, "AttributeError", result)
    ELSE LET prev_db == st["database"]
             st2 == SetAttr(st, "database", Dict(db))
         IN  Outcome(st2,
                     (IF Falsy(prev_db) THEN <<DatabaseAvailableEvent(db)>> ELSE <<>>)
                     \o (IF db # prev_db THEN <<DatabaseChangedEvent(db)>> ELSE <<>>),
                     "none", result)

\* Slip: the two dicts compared item by item in the order each holds its keys.
on_changed_else_Ordered(st, db, result) ==
    IF ~HasAttr(st, "database")
    THEN Outcome(st, <<>>, "AttributeError", result)
    ELSE LET prev_db == st["database"]
             st2 == SetAttr(st, "database", Dict(db))
         IN  IF Falsy(prev_db)
             THEN Outcome(st2, <<DatabaseAvailableEvent(db)>>, "none", result)
             ELSE IF ItemList(db, KeysOf(db, BuiltOrder)) # ItemList(prev_db, key_order)
                  THEN Outcome(st2, <<DatabaseChangedEvent(db)>>, "none", result)
                  ELSE Outcome(st2, <<>>, "none", result)

\* The else branch of on_changed.
on_changed_else(st, db, result) ==
    IF ~HasAttr(st, "database")
    THEN Outcome(st, <<>>, "AttributeError", result)
    ELSE LET prev_db == st["database"]
             st2 == SetAttr(st, "database", Dict(db))
         IN  IF Falsy(prev_db)
             THEN Outcome(st2, <<DatabaseAvailableEvent(db)>>, "none", result)
             ELSE IF db # prev_db
                  THEN Outcome(st2, <<DatabaseChangedEvent(db)>>, "none", result)
                  ELSE Outcome(st2, <<>>, "none", result)

\* Slip: the except clause catching IncompleteDatabaseError only.
on_changed_CatchesIncomplete(st, relation_name_, rels) ==
    LET result == database(relation_name_, rels)
    IN  IF result.raised = "IncompleteDatabaseError"
        THEN Outcome(SetAttr(st, "database", EmptyDict),
                     <<DatabaseUnavailableEvent(result.status)>>, "none", result)
        ELSE IF result.raised # "none"
             THEN Outcome(st, <<>>, result.raised, result)
             ELSE on_changed_else(st, result.db, result)

\* Slip: the stored bundle kept when the database is lost.
on_changed_KeepOnFailure(st, relation_name_, rels) ==
    LET result == database(relation_name_, rels)
    IN  IF result.raised # "none"
        THEN Outcome(st, <<DatabaseUnavailableEvent(result.status)>>, "none", result)
        ELSE on_changed_else(st, result.db, result)

\* MySQLServer.on_changed
on_changed(st, relation_name_, rels) ==
    LET result == database(relation_name_, rels)
    IN  IF result.raised # "none"
        THEN Outcome(SetAttr(st, "database", EmptyDict),
                     <<DatabaseUnavailableEvent(result.status)>>, "none", result)
        ELSE on_changed_else(st, result.db, result)

\* Slip: the stored state not reset on start.
init_state_NoReset(st, relation_name_, rels) ==
    on_changed(st, relation_name_, rels)

\* MySQLServer.init_state
init_state(st, relation_name_, rels) ==
    on_changed(SetAttr(st, "database", EmptyDict), relation_name_, rels)

\* Slip: the stored bundle kept on teardown.
on_broken_NoClear(st, relation_name_) ==
    Outcome(st,
            <<DatabaseUnavailableEvent(BlockedStatus("Missing relation: " \o relation_name_))>>,
            "none", NoResult)

\* Slip: teardown reported only when a bundle was stored.
on_broken_OnlyIfStored(st, relation_name_) ==
    Outcome(SetAttr(st, "database", EmptyDict),
            IF HasAttr(st, "database") /\ ~Falsy(st["database"])
            THEN <<DatabaseUnavailableEvent(BlockedStatus("Missing relation: " \o relation_name_))>>
            ELSE <<>>,
            "none", NoResult)

\* MySQLServer.on_broken
on_broken(st, relation_name_) ==
    Outcome(SetAttr(st, "database", EmptyDict),
            <<DatabaseUnavailableEvent(BlockedStatus("Missing relation: " \o relation_name_))>>,
            "none", NoResult)

\* ---------------------------------------------------------------- monitors
\* Longest run of identical observations the run monitor counts.
MaxRun == 3

\* A StoredState with nothing stored.
NoAttrs == [k \in {} |-> EmptyDict]

\* The key order of state.database after a handler with outcome o: the
\* assignment stores a fresh dict in the order of the one assigned.
OrderAfter(o) ==
    IF o.error # "none" \/ ~HasAttr(o.state, "database") THEN key_order
    ELSE KeysOf(o.state["database"], BuiltOrder)

\* No changed handler is under way; no crash has happened.
Idle == [pc |-> "idle"]
NoCrash == [age |-> 0]

NoEvent == [kind |-> "none"]

\* Relation objects with n units, each endpoint publishing one of maps.
RelationsWith(n, maps) ==
    {[app |-> a, units |-> u] : a \in maps, u \in [1..n -> maps]}

\* What the endpoints of the relations after the first publish: in the
\* extractor's inputs, and when the watcher's notifications run.
OtherData == {EmptyData, DataB}
OtherWatched == {DataB}

\* self._relations for the listed relations rs (unit counts), with the data
\* their endpoints publish at the time of the call: the first relation's drawn
\* from maps, the others' from others.
ViewsOf(rs, maps, others) ==
    IF Len(rs) = 0
    THEN {<<>>}
    ELSE {[i \in 1..Len(rs) |->
              IF i = 1 THEN r
              ELSE [app |-> d, units |-> [j \in 1..rs[i] |-> d]]] :
            r \in RelationsWith(rs[1], maps), d \in others}

\* Every list of relations within the bounds.
Structures == UNION {[1..n -> 0..MaxUnits] : n \in 0..MaxRelations}

\* The open-Available flag after the events es, starting from open.
RECURSIVE OpenAfter(_, _)
OpenAfter(open, es) ==
    IF es = <<>> THEN open
    ELSE OpenAfter(IF Head(es).kind = "database_available" THEN TRUE
                   ELSE IF Head(es).kind = "database_unavailable" THEN FALSE
                   ELSE open,
                   Tail(es))

\* The most recent lifecycle event emitted so far.
LastEvent ==
    IF pass.events # <<>> THEN pass.events[Len(pass.events)] ELSE pass.prevEvent

\* An Available has been emitted and no Unavailable after it.
AvailOpen == OpenAfter(pass.openBefore, pass.events)

NoRun == [n |-> 0, db |-> EmptyDict, first |-> <<>>, later |-> <<>>]
NoScen == [stage |-> 0, a |-> EmptyDict, b |-> EmptyDict, events |-> <<>>]

Min(a, b) == IF a < b THEN a ELSE b

\* The pass was a changed pass that observed a complete bundle and returned.
Observed(op, o) == op = "changed" /\ o.result.raised = "none" /\ o.error = "none"

\* The stored state is initialised and holds no bundle.
StoredEmpty(st) == HasAttr(st, "database") /\ Falsy(st["database"])

RunAfter(op, o) ==
    IF ~Observed(op, o) THEN NoRun
    ELSE IF run.n >= 1 /\ o.result.db = run.db
         THEN [run EXCEPT !.n = Min(run.n + 1, MaxRun), !.later = run.later \o o.events]
         ELSE IF StoredEmpty(state)
              THEN [n |-> 1, db |-> o.result.db, first |-> o.events, later |-> <<>>]
              ELSE NoRun

ScenAfter(op, o) ==
    IF scen.stage = 1 /\ Observed(op, o) /\ o.result.db # scen.a
    THEN [scen EXCEPT !.stage = 2, !.b = o.result.db, !.events = scen.events \o o.events]
    ELSE IF scen.stage = 2 /\ op = "broken"
    THEN [scen EXCEPT !.stage = 3, !.events = scen.events \o o.events]
    ELSE IF scen.stage = 3 /\ Observed(op, o) /\ o.result.db = scen.a
    THEN [scen EXCEPT !.stage = 4, !.events = scen.events \o o.events]
    ELSE IF Observed(op, o) /\ StoredEmpty(state)
    THEN [stage |-> 1, a |-> o.result.db, b |-> EmptyDict, events |-> o.events]
    ELSE NoScen

\* What the pass record keeps of a database() outcome.
Seen(result) == [raised |-> result.raised, status |-> result.status, db |-> result.db]

PassRecord(op, o) ==
    [op |-> op, pre |-> state, result |-> Seen(o.result), events |-> o.events,
     error |-> o.error, prevEvent |-> LastEvent, openBefore |-> AvailOpen,
     afterRestart |-> restarted, preOrder |-> key_order]

\* A notification handler ran to its end with outcome o.
Handled(op, o) ==
    /\ state' = o.state
    /\ pass' = PassRecord(op, o)
    /\ restarted' = FALSE
    /\ key_order' = OrderAfter(o)
    /\ UNCHANGED <<relation_name, relations, given, answer>>

NoPass ==
    [op |-> "none", pre |-> NoAttrs, result |-> Seen(NoResult), events |-> <<>>,
     error |-> "none", prevEvent |-> NoEvent, openBefore |-> FALSE,
     afterRestart |-> FALSE, preOrder |-> <<>>]

\* The state after MySQLServer.__init__ in a new deployment.
Init ==
    /\ relation_name \in RelationNames
    /\ relations = <<>>
    /\ state = NoAttrs
    /\ pass = NoPass
    /\ restarted = FALSE
    /\ run = NoRun
    /\ scen = NoScen
    /\ given = <<>>
    /\ answer = NoResult
    /\ key_order = <<>>
    /\ inflight = Idle
    /\ crashed = NoCrash

\* ----------------------------------------------------------- host actions
RelationCreated ==
    /\ Len(relations) < MaxRelations
    /\ relations' = Append(relations, 0)
    /\ UNCHANGED <<relation_name, state, pass, restarted, run, scen, given, answer, key_order, inflight, crashed>>

RelationRemoved ==
    \E i \in 1..Len(relations) :
        /\ relations' = SubSeq(relations, 1, i - 1) \o SubSeq(relations, i + 1, Len(relations))
        /\ UNCHANGED <<relation_name, state, pass, restarted, run, scen, given, answer, key_order, inflight, crashed>>

UnitJoined ==
    \E i \in 1..Len(relations) :
        /\ relations[i] < MaxUnits
        /\ relations' = [relations EXCEPT ![i] = @ + 1]
        /\ UNCHANGED <<relation_name, state, pass, restarted, run, scen, given, answer, key_order, inflight, crashed>>

UnitDeparted ==
    \E i \in 1..Len(relations) :
        /\ relations[i] > 0
        /\ relations' = [relations EXCEPT ![i] = @ - 1]
        /\ UNCHANGED <<relation_name, state, pass, restarted, run, scen, given, answer, key_order, inflight, crashed>>

\* The charm process ends and a new one is constructed over the same store:
\* the stored dict comes back with its keys as they were or sorted.
Restart ==
    /\ ~restarted
    /\ restarted' = TRUE
    /\ key_order' \in {key_order, Reordered(key_order, SortedOrder)}
    /\ UNCHANGED <<relation_name, relations, state, pass, run, scen, given, answer,
                   inflight, crashed>>

\* ---------------------------------------------------------- notifications
\* charm.on.start -> init_state
Start ==
    \E rels \in ViewsOf(relations, WatchedData, OtherWatched) :
        /\ Handled("start", init_state(state, relation_name, rels))
        /\ UNCHANGED <<run, scen, inflight, crashed>>

\* charm.on[relation_name].relation_changed -> on_changed
Changed ==
    \E rels \in ViewsOf(relations, WatchedData, OtherWatched) :
        /\ Handled("changed", on_changed(state, relation_name, rels))
        /\ UNCHANGED <<run, scen, inflight, crashed>>

\* charm.on[relation_name].relation_broken -> on_broken
Broken ==
    /\ Handled("broken", on_broken(state, relation_name))
    /\ UNCHANGED <<run, scen, inflight, crashed>>

\* Slip: the query keeping the bundle it found in the stored state.
QueryOutcome_Caches(rels) ==
    LET result == database(relation_name, rels)
    IN  Outcome(IF result.raised = "none"
                THEN SetAttr(state, "database", Dict(result.db)) ELSE state,
                <<>>, result.raised, result)

\* The host calls database() itself.
QueryOutcome(rels) ==
    LET result == database(relation_name, rels)
    IN  Outcome(state, <<>>, result.raised, result)

Query ==
    \E rels \in ViewsOf(relations, WatchedData, OtherWatched) :
        /\ state' = QueryOutcome(rels).state
        /\ pass' = PassRecord("query", QueryOutcome(rels))
        /\ UNCHANGED <<relation_name, relations, restarted, run, scen, given, answer, key_order, inflight, crashed>>

Next ==
    \/ RelationCreated
    \/ RelationRemoved
    \/ UnitJoined
    \/ UnitDeparted
    \/ Start
    \/ Changed
    \/ Broken
    \/ Query

Spec == Init /\ [][Next]_vars

\* ------------------------------------------- the watcher across restarts
\* What the first relation's endpoints publish in the runs with restarts.
RestartData == {Without(DataA, "password"), DataA, DataB}

\* charm.on.start -> init_state
StartRestartable ==
    \E rels \in ViewsOf(relations, RestartData, OtherWatched) :
        /\ Handled("start", init_state(state, relation_name, rels))
        /\ UNCHANGED <<run, scen, inflight, crashed>>

\* charm.on[relation_name].relation_changed -> on_changed
ChangedRestartable ==
    \E rels \in ViewsOf(relations, RestartData, OtherWatched) :
        /\ Handled("changed", on_changed(state, relation_name, rels))
        /\ UNCHANGED <<run, scen, inflight, crashed>>

NextRestart ==
    \/ RelationCreated
    \/ RelationRemoved
    \/ UnitJoined
    \/ UnitDeparted
    \/ Restart
    \/ StartRestartable
    \/ ChangedRestartable
    \/ Broken

SpecRestart == Init /\ [][NextRestart]_vars

\* ------------------------------------------- the watcher, with its monitors
StartTraced ==
    \E rels \in ViewsOf(relations, WatchedData, OtherWatched) :
        LET o == init_state(state, relation_name, rels)
        IN  /\ Handled("start", o)
            /\ run' = RunAfter("start", o)
            /\ scen' = ScenAfter("start", o)
            /\ UNCHANGED <<inflight, crashed>>

ChangedTraced ==
    \E rels \in ViewsOf(relations, WatchedData, OtherWatched) :
        LET o == on_changed(state, relation_name, rels)
        IN  /\ Handled("changed", o)
            /\ run' = RunAfter("changed", o)
            /\ scen' = ScenAfter("changed", o)
            /\ UNCHANGED <<inflight, crashed>>

BrokenTraced ==
    LET o == on_broken(state, relation_name)
    IN  /\ Handled("broken", o)
        /\ run' = RunAfter("broken", o)
        /\ scen' = ScenAfter("broken", o)
        /\ UNCHANGED <<inflight, crashed>>

NextTrace ==
    \/ RelationCreated
    \/ RelationRemoved
    \/ UnitJoined
    \/ UnitDeparted
    \/ StartTraced
    \/ ChangedTraced
    \/ BrokenTraced

SpecTrace == Init /\ [][NextTrace]_vars

\* ---------------------------------- the watcher, a changed pass step by step
\* What the first relation's endpoints publish while a pass can be cut short.
CrashData == {Without(DataA, "password"), DataA, DataB}

Views == ViewsOf(relations, CrashData, OtherWatched)

\* The pass record of the changed handler under way.
InflightRecord(o) ==
    [PassRecord("changed", o) EXCEPT !.pre = inflight.pre, !.preOrder = inflight.preOrder]

\* on_changed up to its assignment to state.database (line 70, or line 75); a
\* handler that raises before it ends there.
ChangedStore ==
    /\ inflight.pc = "idle"
    /\ \E rels \in Views :
          LET o == on_changed(state, relation_name, rels)
          IN  IF o.error # "none"
              THEN /\ Handled("changed", o)
                   /\ crashed' = NoCrash
                   /\ UNCHANGED <<run, scen, inflight>>
              ELSE /\ state' = o.state
                   /\ key_order' = OrderAfter(o)
                   /\ inflight' = [pc |-> "stored", pre |-> state,
                                   preOrder |-> key_order, o |-> o]
                   /\ UNCHANGED <<relation_name, relations, pass, restarted, run, scen,
                                  given, answer, crashed>>

\* on_changed from there on: the emit of line 71, or lines 76-79.
ChangedEmit ==
    /\ inflight.pc = "stored"
    /\ pass' = InflightRecord(inflight.o)
    /\ restarted' = FALSE
    /\ inflight' = [inflight EXCEPT !.pc = "emitted"]
    /\ UNCHANGED <<relation_name, relations, state, run, scen, given, answer,
                   key_order, crashed>>

\* The handler returns and the notification is done.
ChangedReturn ==
    /\ inflight.pc = "emitted"
    /\ inflight' = Idle
    /\ crashed' = IF crashed.age = 1 THEN [crashed EXCEPT !.age = 2] ELSE NoCrash
    /\ UNCHANGED <<relation_name, relations, state, pass, restarted, run, scen, given,
                   answer, key_order>>

\* The process dies inside the handler, after the assignment. The store is the
\* host's: the assignment has either reached it or is lost with the process.
Crash ==
    /\ inflight.pc \in {"stored", "emitted"}
    /\ \E kept \in BOOLEAN :
          /\ state' = IF kept THEN state ELSE inflight.pre
          /\ key_order' = IF kept THEN key_order ELSE inflight.preOrder
          /\ crashed' = [age |-> 1,
                         result |-> Seen(inflight.o.result),
                         intended |-> inflight.o.events,
                         emitted |-> IF inflight.pc = "emitted"
                                     THEN inflight.o.events ELSE <<>>]
    /\ pass' = IF inflight.pc = "emitted"
               THEN [pass EXCEPT !.error = "crash"]
               ELSE InflightRecord([inflight.o EXCEPT !.events = <<>>, !.error = "crash"])
    /\ restarted' = TRUE
    /\ inflight' = Idle
    /\ UNCHANGED <<relation_name, relations, run, scen, given, answer>>

StartIdle ==
    /\ inflight.pc = "idle"
    /\ \E rels \in Views : Handled("start", init_state(state, relation_name, rels))
    /\ crashed' = NoCrash
    /\ UNCHANGED <<run, scen, inflight>>

BrokenIdle ==
    /\ inflight.pc = "idle"
    /\ Handled("broken", on_broken(state, relation_name))
    /\ crashed' = NoCrash
    /\ UNCHANGED <<run, scen, inflight>>

NextCrash ==
    \/ RelationCreated
    \/ RelationRemoved
    \/ UnitJoined
    \/ UnitDeparted
    \/ StartIdle
    \/ BrokenIdle
    \/ ChangedStore
    \/ ChangedEmit
    \/ ChangedReturn
    \/ Crash

SpecCrash == Init /\ [][NextCrash]_vars

\* ------------------------------------------------- the extractor on its own
\* The most units the relation handed to the extractor has.
MaxChainUnits == 2

\* What the unit endpoints of that relation publish: nothing, complete data of
\* two databases, data lacking or having empty a mandatory field, data with an
\* empty and with another port, and the half of the fields.
UnitData ==
    {EmptyData, DataA, DataB, Without(DataA, "host"), With(DataA, "password", ""),
     With(DataA, "port", ""), With(DataA, "port", "3307"),
     Only(DataA, {"user", "password"})}

\* Every list of relations the extractor is given: the first with up to
\* MaxChainUnits units.
QueryStructures ==
    UNION {{rs \in [1..n -> 0..(IF MaxChainUnits > MaxUnits THEN MaxChainUnits ELSE MaxUnits)] :
                /\ \A i \in 1..n : i = 1 => rs[i] <= MaxChainUnits
                /\ \A i \in 2..n : rs[i] <= MaxUnits} : n \in 0..MaxRelations}

\* self._relations for rs: the first relation's application publishing one of
\* DataMaps and each of its units one of UnitData.
QueryViews(rs) ==
    IF Len(rs) = 0
    THEN {<<>>}
    ELSE {[i \in 1..Len(rs) |->
              IF i = 1 THEN [app |-> a, units |-> u]
              ELSE [app |-> d, units |-> [j \in 1..rs[i] |-> d]]] :
            a \in DataMaps, u \in [1..rs[1] -> UnitData], d \in OtherData}

InitQuery ==
    /\ relation_name \in RelationNames
    /\ relations \in QueryStructures
    /\ given \in QueryViews(relations)
    /\ answer = NoResult
    /\ state = NoAttrs
    /\ pass = NoPass
    /\ restarted = FALSE
    /\ run = NoRun
    /\ scen = NoScen
    /\ key_order = <<>>
    /\ inflight = Idle
    /\ crashed = NoCrash

\* database() is called on the given relations.
QueryGiven ==
    /\ answer = NoResult
    /\ answer' = database(relation_name, given)
    /\ UNCHANGED <<relation_name, relations, state, pass, restarted, run, scen, given,
                   key_order, inflight, crashed>>

NextQuery == QueryGiven

SpecQuery == InitQuery /\ [][NextQuery]_vars

\* ================================================================== claims
\* Vocabulary of the claims, stated on the published data itself.
Mandatory == {"database", "host", "user", "password"}

\* The endpoint data d publishes all four mandatory fields, none of them empty.
Complete(d) == \A f \in Mandatory : f \in DOMAIN d /\ d[f] # ""

\* The bundle the data d stands for.
BundleOf(d) ==
    [name |-> d["database"], host |-> d["host"], username |-> d["user"],
     password |-> d["password"],
     port |-> IF "port" \in DOMAIN d THEN d["port"] ELSE "3306"]

\* The endpoints of the relation r in priority order.
Chain(r) == <<r.app>> \o r.units

Called == answer # NoResult

Available(b) == [kind |-> "database_available", database |-> b]
ChangedTo(b) == [kind |-> "database_changed", database |-> b]
Lost(severity, message) ==
    [kind |-> "database_unavailable", status |-> [name |-> severity, message |-> message]]

\* The messages of the status table, written out for each relation name.
MissingMessage == IF relation_name = "db" THEN "Missing relation: db"
                  ELSE "Missing relation: shared-db"
TooManyMessage == IF relation_name = "db" THEN "Too many related applications: db"
                  ELSE "Too many related applications: shared-db"
WaitingMessage == IF relation_name = "db" THEN "Waiting for database: db"
                  ELSE "Waiting for database: shared-db"

\* The status the table gives the failure named raised.
TableStatus(raised) ==
    IF raised = "MissingRelationError" THEN [name |-> "blocked", message |-> MissingMessage]
    ELSE IF raised = "TooManyDatabasesError" THEN [name |-> "blocked", message |-> TooManyMessage]
    ELSE [name |-> "waiting", message |-> WaitingMessage]

Failures == {"MissingRelationError", "TooManyDatabasesError", "IncompleteDatabaseError"}

\* C1: database() enforces cardinality: no relation gives the missing-relation
\* failure, two or more give the too-many failure with no endpoint data read,
\* and exactly one goes on to extraction from that relation (a bundle built
\* from one of its endpoints, or the incomplete failure, after reading data).
C1_Cardinality ==
    Called =>
        /\ Len(given) = 0 => answer.raised = "MissingRelationError" /\ answer.reads = 0
        /\ Len(given) >= 2 => answer.raised = "TooManyDatabasesError" /\ answer.reads = 0
        /\ Len(given) = 1 =>
              /\ answer.raised \in {"none", "IncompleteDatabaseError"}
              /\ answer.reads >= 1
              /\ answer.raised = "none" =>
                    \E i \in 1..Len(Chain(given[1])) :
                        /\ Complete(Chain(given[1])[i])
                        /\ answer.db = BundleOf(Chain(given[1])[i])

\* Two relations, the first of them publishing a complete bundle: too many.
C1_Witness ==
    /\ Called
    /\ Len(given) = 2
    /\ Complete(given[1].app)
    /\ answer.raised = "TooManyDatabasesError"

\* C2: with a single relation, extraction fails as incomplete when every
\* endpoint lacks or has empty one of database/host/user/password, and
\* otherwise gives a bundle of one complete endpoint with name=database,
\* host=host, username=user, password=password and port the published port when
\* the port key is there and "3306" when it is not.
C2_Completeness ==
    (Called /\ Len(given) = 1) =>
        LET cs == Chain(given[1])
        IN  /\ (\A i \in 1..Len(cs) : ~Complete(cs[i])) =>
                    answer.raised = "IncompleteDatabaseError"
            /\ (\E i \in 1..Len(cs) : Complete(cs[i])) =>
                    /\ answer.raised = "none"
                    /\ \E i \in 1..Len(cs) :
                          /\ Complete(cs[i])
                          /\ answer.db.name = cs[i]["database"]
                          /\ answer.db.host = cs[i]["host"]
                          /\ answer.db.username = cs[i]["user"]
                          /\ answer.db.password = cs[i]["password"]
                          /\ "port" \in DOMAIN cs[i] => answer.db.port = cs[i]["port"]
                          /\ "port" \notin DOMAIN cs[i] => answer.db.port = "3306"
                          /\ DOMAIN answer.db = {"name", "host", "port", "username", "password"}

\* A bundle extracted from an endpoint that published an empty port.
C2_Witness ==
    /\ Called
    /\ Len(given) = 1
    /\ Complete(given[1].app)
    /\ "port" \in DOMAIN given[1].app
    /\ given[1].app["port"] = ""
    /\ answer.raised = "none"
    /\ answer.db.port = ""

\* C3: with a single relation, extraction succeeds exactly when some endpoint
\* of the chain, application first and then the units in their order, has all
\* four mandatory fields non-empty; the bundle is then that of the first such
\* endpoint of the chain and no endpoint after it is read. So an incomplete
\* application and a complete unit give the first complete unit's bundle, and
\* a complete application gives the application's.
C3_PriorityChain ==
    (Called /\ Len(given) = 1) =>
        LET cs == Chain(given[1])
            first == CHOOSE i \in 1..Len(cs) :
                        Complete(cs[i]) /\ \A j \in 1..(i - 1) : ~Complete(cs[j])
        IN  /\ answer.raised = "none" <=> \E i \in 1..Len(cs) : Complete(cs[i])
            /\ (\E i \in 1..Len(cs) : Complete(cs[i])) =>
                    /\ answer.db = BundleOf(cs[first])
                    /\ answer.reads = first

\* The application endpoint is incomplete and two units are complete with
\* different bundles: the first unit's bundle, the second unit not read.
C3_Witness ==
    /\ Called
    /\ Len(given) = 1
    /\ Len(given[1].units) = 2
    /\ ~Complete(given[1].app)
    /\ Complete(given[1].units[1])
    /\ Complete(given[1].units[2])
    /\ BundleOf(given[1].units[1]) # BundleOf(given[1].units[2])
    /\ answer.raised = "none"
    /\ answer.db = BundleOf(given[1].units[1])
    /\ answer.reads = 2

\* C4: an Unavailable event and a failed query carry exactly the status of the
\* table: missing relation and too many are Blocking, incomplete is Waiting,
\* teardown is Blocking "Missing relation", each with the relation's name.
C4_StatusTable ==
    /\ pass.result.raised \in Failures => pass.result.status = TableStatus(pass.result.raised)
    /\ \A i \in 1..Len(pass.events) :
          pass.events[i].kind = "database_unavailable" =>
              /\ pass.op = "broken" =>
                    pass.events[i].status = [name |-> "blocked", message |-> MissingMessage]
              /\ pass.op # "broken" =>
                    /\ pass.result.raised \in Failures
                    /\ pass.events[i].status = TableStatus(pass.result.raised)

\* A changed pass on "shared-db" found the relation incomplete and said so.
C4_Witness ==
    /\ relation_name = "shared-db"
    /\ pass.op = "changed"
    /\ pass.result.raised = "IncompleteDatabaseError"
    /\ pass.events = <<Lost("waiting", "Waiting for database: shared-db")>>

\* C5: a changed pass that extracts bundle b over persisted state p emits
\* Available(b) when p is empty, Changed(b) when p is a different bundle and
\* nothing when p equals b, and leaves b persisted.
C5_Classification ==
    (/\ pass.op = "changed"
     /\ pass.result.raised = "none"
     /\ "database" \in DOMAIN pass.pre) =>
        LET p == pass.pre["database"]
            b == pass.result.db
        IN  /\ p = EmptyDict => pass.events = <<Available(b)>>
            /\ (p # EmptyDict /\ p # b) => pass.events = <<ChangedTo(b)>>
            /\ p = b => pass.events = <<>>
            /\ "database" \in DOMAIN state
            /\ state["database"] = b

\* A changed pass replaced one persisted bundle by another.
C5_Witness ==
    /\ pass.op = "changed"
    /\ pass.result.raised = "none"
    /\ "database" \in DOMAIN pass.pre
    /\ pass.pre["database"] # EmptyDict
    /\ pass.pre["database"] # pass.result.db
    /\ pass.events = <<ChangedTo(pass.result.db)>>
    /\ state["database"] = pass.result.db

\* C6: consecutive changed passes from empty persisted state that all observe
\* the same complete bundle emit Available once, on the first pass, and nothing
\* on any later pass.
C6_Idempotent ==
    run.n >= 1 => run.first = <<Available(run.db)>> /\ run.later = <<>>

\* Three such passes in a row.
C6_Witness == run.n >= 3 /\ run.db # EmptyDict

\* C7: a Changed event is never the first event, and the event right before a
\* Changed event is an Available or a Changed event; from initialised empty
\* state, bundle a, a different bundle b, teardown and bundle a again emit
\* exactly Available(a), Changed(b), Lost, Available(a).
C7_AvailableBeforeChanged ==
    /\ \A i \in 1..Len(pass.events) :
          pass.events[i].kind = "database_changed" =>
              LET before == IF i = 1 THEN pass.prevEvent ELSE pass.events[i - 1]
              IN  before.kind \in {"database_available", "database_changed"}
    /\ scen.stage = 4 =>
          scen.events = <<Available(scen.a), ChangedTo(scen.b),
                          Lost("blocked", MissingMessage), Available(scen.a)>>

\* The four passes of the scenario have run.
C7_Witness == scen.stage = 4 /\ scen.a # scen.b /\ scen.a # EmptyDict

\* The open-Available flag right before the i-th event of the last pass.
OpenBefore(i) == OpenAfter(pass.openBefore, SubSeq(pass.events, 1, i - 1))

\* C8: between any two Available events there is at least one Unavailable
\* event: no Available is emitted while an earlier Available is still the
\* latest of the Available and Unavailable events.
C8_LostBetweenAvailables ==
    \A i \in 1..Len(pass.events) :
        pass.events[i].kind = "database_available" => ~OpenBefore(i)

\* C9: once Available(A) was emitted and A persisted, a notification handled
\* after a process restart that observes the same bundle A emits no Available.
C9_RestartDurability ==
    (/\ pass.afterRestart
     /\ pass.op \in {"start", "changed", "broken"}
     /\ pass.prevEvent.kind = "database_available"
     /\ "database" \in DOMAIN pass.pre
     /\ pass.pre["database"] = pass.prevEvent.database
     /\ pass.result.raised = "none"
     /\ pass.result.db = pass.prevEvent.database) =>
        \A i \in 1..Len(pass.events) : pass.events[i].kind # "database_available"

\* C10: a broken notification leaves the persisted state empty and emits
\* exactly one Unavailable event with Blocking "Missing relation: <name>".
C10_Broken ==
    pass.op = "broken" =>
        /\ "database" \in DOMAIN state
        /\ state["database"] = EmptyDict
        /\ pass.events = <<Lost("blocked", MissingMessage)>>

\* Teardown while a bundle was persisted and a relation is still listed.
C10_Witness ==
    /\ pass.op = "broken"
    /\ "database" \in DOMAIN pass.pre
    /\ pass.pre["database"] # EmptyDict
    /\ Len(relations) >= 1
    /\ state["database"] = EmptyDict
    /\ pass.events = <<Lost("blocked", MissingMessage)>>

\* The persisted state st holds a bundle.
HoldsBundle(st) == "database" \in DOMAIN st /\ st["database"] # EmptyDict

Notifications == {"start", "changed", "broken"}

\* C11: a changed pass whose guard or extractor fails while no bundle is
\* persisted emits no event and leaves the persisted state as it was; a changed
\* pass emits Unavailable only when a bundle was persisted before it.
C11_NoSpuriousEvents ==
    (/\ pass.op = "changed"
     /\ pass.result.raised \in Failures
     /\ ~HoldsBundle(pass.pre)) =>
        /\ pass.events = <<>>
        /\ state = pass.pre

\* C12: the handling of one start, changed or broken notification emits at most
\* one lifecycle event, so never both Available and Changed.
C12_AtMostOneEvent ==
    pass.op \in Notifications =>
        /\ Len(pass.events) <= 1
        /\ ~(/\ \E i \in 1..Len(pass.events) : pass.events[i].kind = "database_available"
             /\ \E i \in 1..Len(pass.events) : pass.events[i].kind = "database_changed")

\* A changed pass found a first bundle and emitted its one event.
C12_Witness ==
    /\ pass.op = "changed"
    /\ pass.result.raised = "none"
    /\ "database" \in DOMAIN pass.pre
    /\ pass.pre["database"] = EmptyDict
    /\ Len(pass.events) = 1
    /\ pass.events[1].kind = "database_available"

\* C14: a changed pass that fails while a bundle is persisted returns without
\* raising, emits exactly one Unavailable event with the status of that
\* failure and leaves the persisted state empty; and the successful changed
\* pass that follows an Unavailable event emits Available, not Changed.
C14_LostOnFailure ==
    /\ (/\ pass.op = "changed"
        /\ pass.result.raised \in Failures
        /\ HoldsBundle(pass.pre)) =>
           /\ pass.error = "none"
           /\ pass.events = <<[kind |-> "database_unavailable",
                               status |-> TableStatus(pass.result.raised)]>>
           /\ "database" \in DOMAIN state
           /\ state["database"] = EmptyDict
    /\ (/\ pass.op = "changed"
        /\ pass.result.raised = "none"
        /\ pass.prevEvent.kind = "database_unavailable") =>
           pass.events = <<Available(pass.result.db)>>

\* A bundle was persisted and the relation went away.
C14_Witness ==
    /\ pass.op = "changed"
    /\ HoldsBundle(pass.pre)
    /\ pass.result.raised = "MissingRelationError"
    /\ pass.events = <<Lost("blocked", MissingMessage)>>
    /\ state["database"] = EmptyDict

\* C15: a changed notification handled before any start has written the
\* persisted state is processed as if that state were empty: a complete bundle
\* is classified Available and persisted, and the handler returns normally.
C15_CreatedEmpty ==
    (/\ pass.op = "changed"
     /\ "database" \notin DOMAIN pass.pre
     /\ pass.result.raised = "none") =>
        /\ pass.error = "none"
        /\ pass.events = <<Available(pass.result.db)>>
        /\ "database" \in DOMAIN state
        /\ state["database"] = pass.result.db

\* C17: a direct database() call changes nothing: the persisted state is what
\* it was, no event is emitted, and the event history the next notification
\* builds on is the one from before the call.
C17_QueryNoSideEffect ==
    pass.op = "query" =>
        /\ state = pass.pre
        /\ pass.events = <<>>
        /\ LastEvent = pass.prevEvent
        /\ AvailOpen = pass.openBefore

\* A query found a bundle other than the persisted one.
C17_Witness ==
    /\ pass.op = "query"
    /\ pass.result.raised = "none"
    /\ HoldsBundle(state)
    /\ state["database"] # pass.result.db

\* The bundle b is complete.
CompleteBundle(b) ==
    /\ DOMAIN b = {"name", "host", "port", "username", "password"}
    /\ b["name"] # "" /\ b["host"] # "" /\ b["username"] # "" /\ b["password"] # ""

\* C18: once the persisted state has been written, at the end of each pass it
\* is empty or a complete bundle; it is non-empty exactly when the most recent
\* pass was a start or changed pass whose extraction succeeded, and it then
\* equals the bundle of that pass and the payload of the most recent
\* Available or Changed event.
C18_PersistedInvariant ==
    ("database" \in DOMAIN state /\ pass.op \in Notifications) =>
        /\ state["database"] = EmptyDict \/ CompleteBundle(state["database"])
        /\ state["database"] # EmptyDict <=>
              (pass.op \in {"start", "changed"} /\ pass.result.raised = "none")
        /\ state["database"] # EmptyDict =>
              /\ state["database"] = pass.result.db
              /\ LastEvent.kind \in {"database_available", "database_changed"}
              /\ LastEvent.database = state["database"]

\* A changed pass saw the persisted bundle again and said nothing.
C18_Witness ==
    /\ pass.op = "changed"
    /\ pass.events = <<>>
    /\ HoldsBundle(state)
    /\ state["database"] = pass.result.db
    /\ LastEvent.kind = "database_changed"

\* C19: a start notification resets the persisted state and then runs a
\* changed pass, so whatever was persisted it emits exactly one event:
\* Available(b) when extraction gives b, Unavailable(status) when it fails.
C19_StartEmitsOne ==
    pass.op = "start" =>
        /\ pass.error = "none"
        /\ pass.result.raised = "none" =>
              /\ pass.events = <<Available(pass.result.db)>>
              /\ state["database"] = pass.result.db
        /\ pass.result.raised # "none" =>
              /\ pass.result.raised \in Failures
              /\ pass.events = <<[kind |-> "database_unavailable",
                                  status |-> TableStatus(pass.result.raised)]>>
              /\ state["database"] = EmptyDict

\* A start found the very bundle that was persisted.
C19_Witness ==
    /\ pass.op = "start"
    /\ HoldsBundle(pass.pre)
    /\ pass.pre["database"] = pass.result.db
    /\ pass.events = <<Available(pass.result.db)>>

\* The mandatory fields some endpoint of the chain cs publishes non-empty.
Published(cs) ==
    {f \in Mandatory : \E i \in 1..Len(cs) : f \in DOMAIN cs[i] /\ cs[i][f] # ""}

\* C20: every field of an extracted bundle comes from one same endpoint, and
\* mandatory fields spread over several endpoints are not combined: when no
\* single endpoint is complete the relation is incomplete.
C20_SingleEndpoint ==
    (Called /\ Len(given) = 1) =>
        LET cs == Chain(given[1])
        IN  /\ answer.raised = "none" =>
                  \E i \in 1..Len(cs) :
                      /\ Mandatory \subseteq DOMAIN cs[i]
                      /\ answer.db.name = cs[i]["database"]
                      /\ answer.db.host = cs[i]["host"]
                      /\ answer.db.username = cs[i]["user"]
                      /\ answer.db.password = cs[i]["password"]
                      /\ answer.db.port = (IF "port" \in DOMAIN cs[i]
                                           THEN cs[i]["port"] ELSE "3306")
            /\ (Published(cs) = Mandatory /\ \A i \in 1..Len(cs) : ~Complete(cs[i])) =>
                  answer.raised = "IncompleteDatabaseError"

\* database/host on the application, user/password on a unit: incomplete.
C20_Witness ==
    /\ Called
    /\ Len(given) = 1
    /\ Len(given[1].units) >= 1
    /\ DOMAIN given[1].app = {"database", "host"}
    /\ DOMAIN given[1].units[1] = {"user", "password"}
    /\ answer.raised = "IncompleteDatabaseError"

\* The key/value pairs of the dict d.
Pairs(d) == {<<k, d[k]>> : k \in DOMAIN d}

\* C13: when the extracted bundle and the persisted bundle hold the same five
\* key/value pairs, the changed pass emits no event, in whatever order the
\* persisted dict holds its keys.
C13_FieldOrderInvariance ==
    (/\ pass.op = "changed"
     /\ pass.result.raised = "none"
     /\ HoldsBundle(pass.pre)
     /\ Pairs(pass.pre["database"]) = Pairs(pass.result.db)) =>
        pass.events = <<>>

\* The persisted dict came back from the store with its keys sorted, and the
\* changed pass found the same pairs in it.
C13_Witness ==
    /\ pass.op = "changed"
    /\ pass.result.raised = "none"
    /\ HoldsBundle(pass.pre)
    /\ Pairs(pass.pre["database"]) = Pairs(pass.result.db)
    /\ pass.preOrder = <<"host", "name", "password", "port", "username">>
    /\ pass.events = <<>>

\* C16: a crash inside a changed pass neither drops nor duplicates the event
\* the pass had to emit: what the cut-short pass emitted, followed by what the
\* next changed pass observing the same bundle emits, is that one event.
C16_CrashNeitherDropsNorDuplicates ==
    (/\ crashed.age = 2
     /\ crashed.result.raised = "none"
     /\ pass.op = "changed"
     /\ pass.error = "none"
     /\ pass.result.raised = "none"
     /\ pass.result.db = crashed.result.db) =>
        crashed.emitted \o pass.events = crashed.intended

====
